---- MODULE Spec2Model ----
(***************************************************************************)
(* Model of the FAQ matcher of the MyCanada newcomer assistant             *)
(* (src/app.py).  best_faq_match scans the module-level list `faqs` and    *)
(* keeps the record whose question is most similar to the query, as        *)
(* measured by difflib.SequenceMatcher.ratio().                            *)
(*                                                                         *)
(* Strings are sequences of one-character strings.  A similarity score is  *)
(* the float 2.0*M/T of SequenceMatcher; it is kept as the reduced         *)
(* fraction [num, den].  For the operand sizes of this model the IEEE      *)
(* division is correctly rounded and monotone, so two scores are equal     *)
(* (ordered) as floats exactly when the fractions are equal (ordered).     *)
(***************************************************************************)
EXTENDS Integers, Sequences, FiniteSets, TLC

\* ------------------------------------------------------------------------
\* Bounds of the model
\* ------------------------------------------------------------------------
MaxFaqs == 2
MaxLen == 1

\* ------------------------------------------------------------------------
\* Values
\* ------------------------------------------------------------------------
Chars == {"a", "A", " "}

RECURSIVE StringsUpTo(_)
StringsUpTo(n) ==
    IF n = 0 THEN {<< >>}
    ELSE LET shorter == StringsUpTo(n - 1)
         IN  shorter \cup {Append(s, ch) : s \in {t \in shorter : Len(t) = n - 1}, ch \in Chars}

\* A JSON / Python value: a string, null (None), or no value at all (key absent).
Str(s) == [tag |-> "str", s |-> s]
None == [tag |-> "none", s |-> << >>]
Absent == [tag |-> "absent", s |-> << >>]

\* A FAQ record: a dict of which the matcher reads the key "question".
Faq(qv) == [question |-> qv]

QuestionValues == {Str(s) : s \in StringsUpTo(MaxLen)} \cup {None, Absent}

FaqRecords == {Faq(qv) : qv \in QuestionValues}

RECURSIVE ListsUpTo(_, _)
ListsUpTo(S, n) ==
    IF n = 0 THEN {<< >>}
    ELSE LET shorter == ListsUpTo(S, n - 1)
         IN  shorter \cup {Append(l, x) : l \in {t \in shorter : Len(t) = n - 1}, x \in S}

\* The query argument: a string one longer than the questions, or None.
QueryArgs == {Str(s) : s \in StringsUpTo(MaxLen + 1)} \cup {None}

\* Floats as reduced fractions.
RECURSIVE GCD(_, _)
GCD(m, n) == IF n = 0 THEN m ELSE GCD(n, m % n)

Frac(n, d) == IF n = 0 THEN [num |-> 0, den |-> 1]
              ELSE LET g == GCD(IF n < 0 THEN -n ELSE n, d)
                   IN  [num |-> n \div g, den |-> d \div g]

Zero == Frac(0, 1)
One == Frac(1, 1)

Less(x, y) == x.num * y.den < y.num * x.den
Greater(x, y) == Less(y, x)

\* The threshold argument of a call.
Thresholds == {Zero, Frac(2, 3), One}

\* ------------------------------------------------------------------------
\* str.strip(), str.lower(), dict.get()
\* ------------------------------------------------------------------------
IsSpace(ch) == ch = " "

RECURSIVE LStrip(_)
LStrip(s) == IF s # << >> /\ IsSpace(Head(s)) THEN LStrip(Tail(s)) ELSE s

RECURSIVE RStrip(_)
RStrip(s) == IF s # << >> /\ IsSpace(s[Len(s)])
             THEN RStrip(SubSeq(s, 1, Len(s) - 1)) ELSE s

\* The query used as typed: no strip().
Strip_none(s) == s

Strip(s) == RStrip(LStrip(s))

LowerChar(ch) == IF ch = "A" THEN "a" ELSE ch

\* No case folding: lower() left out.
Lower_none(s) == s

Lower(s) == [k \in 1..Len(s) |-> LowerChar(s[k])]

\* faq.get(key) without the default: None for an absent key.
DictGet_nodefault(faq, default) ==
    IF faq.question.tag = "absent" THEN None ELSE faq.question

\* faq.get(key, default) for the key "question".
DictGet(faq, default) ==
    IF faq.question.tag = "absent" THEN default ELSE faq.question

\* (query or ""): None and "" are falsy.
OrEmpty(qa) == IF qa.tag = "none" \/ qa.s = << >> THEN << >> ELSE qa.s

\* ------------------------------------------------------------------------
\* difflib.SequenceMatcher(None, a, b).ratio()
\* Indices are 0-based and half-open as in difflib; a[i] is a[i + 1] here.
\* ------------------------------------------------------------------------
Min2(x, y) == IF x < y THEN x ELSE y

\* Longest block a[i:i+k] = b[j:j+k] inside a[alo:ahi], b[blo:bhi]; of the
\* longest blocks the one starting earliest in a, and of those earliest in b.
find_longest_match(a, b, alo, ahi, blo, bhi) ==
    LET blocks == {m \in (alo..ahi - 1) \X (blo..bhi - 1) \X (1..Min2(ahi - alo, bhi - blo)) :
                      /\ m[1] + m[3] <= ahi
                      /\ m[2] + m[3] <= bhi
                      /\ \A d \in 0..m[3] - 1 : a[m[1] + d + 1] = b[m[2] + d + 1]}
        Better(m, n) == \/ m[3] > n[3]
                        \/ m[3] = n[3] /\ m[1] < n[1]
                        \/ m[3] = n[3] /\ m[1] = n[1] /\ m[2] < n[2]
    IN  IF blocks = {} THEN [i |-> alo, j |-> blo, size |-> 0]
        ELSE LET m == CHOOSE m \in blocks : \A n \in blocks \ {m} : Better(m, n)
             IN  [i |-> m[1], j |-> m[2], size |-> m[3]]

\* Sum of the sizes of get_matching_blocks(): the longest block, then the
\* pieces to its left and to its right.
RECURSIVE MatchedChars(_, _, _, _, _, _)
MatchedChars(a, b, alo, ahi, blo, bhi) ==
    LET m == find_longest_match(a, b, alo, ahi, blo, bhi)
    IN  IF m.size = 0 THEN 0
        ELSE m.size
             + (IF alo < m.i /\ blo < m.j
                THEN MatchedChars(a, b, alo, m.i, blo, m.j) ELSE 0)
             + (IF m.i + m.size < ahi /\ m.j + m.size < bhi
                THEN MatchedChars(a, b, m.i + m.size, ahi, m.j + m.size, bhi) ELSE 0)

\* 2.0 * matches, not divided by the total length.
Ratio_undivided(a, b) ==
    LET length == Len(a) + Len(b)
    IN  IF length = 0 THEN One
        ELSE Frac(2 * MatchedChars(a, b, 0, Len(a), 0, Len(b)), 1)

\* _calculate_ratio(matches, length): 2.0 * matches / length, 1.0 when length = 0.
Ratio(a, b) ==
    LET length == Len(a) + Len(b)
    IN  IF length = 0 THEN One
        ELSE Frac(2 * MatchedChars(a, b, 0, Len(a), 0, Len(b)), length)

\* ratio() of every pair of texts a call can compare, computed once.
RatioOf ==
    LET texts == StringsUpTo(MaxLen + 1)
    IN  [a \in texts |-> [b \in texts |-> Ratio(a, b)]]

\* ------------------------------------------------------------------------
\* Data files, load_json and st.cache_data (lines 27-42)
\* ------------------------------------------------------------------------
FaqsFile == "faqs.json"
CitiesFile == "cities.json"
GuidesFile == "immigration_guides.json"
Files == {FaqsFile, CitiesFile, GuidesFile}

\* A file of the data directory: absent, or holding a JSON list.
NoFile == [exists |-> FALSE, data |-> << >>]
File(data) == [exists |-> TRUE, data |-> data]

\* The outcome of a call: a returned list, or an exception.
Returned(data) == [ok |-> TRUE, data |-> data]
Raised == [ok |-> FALSE, data |-> << >>]

\* open(path) and json.load(f): FileNotFoundError when there is no file.
OpenAndLoad(d, filename) ==
    IF d[filename].exists THEN Returned(d[filename].data) ELSE Raised

\* load_json without the test of path.exists().
load_json_nocheck(d, filename) == OpenAndLoad(d, filename)

\* Lines 32-37: the body of load_json.
load_json(d, filename) ==
    IF ~d[filename].exists THEN Returned(<< >>) ELSE OpenAndLoad(d, filename)

\* Line 31, @st.cache_data: the value kept for a filename is returned
\* without running the body; otherwise the body runs.
NotCached == [cached |-> FALSE, value |-> << >>]
Cached(value) == [cached |-> TRUE, value |-> value]

cached_load_json(ch, d, filename) ==
    IF ch[filename].cached THEN Returned(ch[filename].value) ELSE load_json(d, filename)

\* The cache after the call: a returned value is kept, an exception is not.
CacheAfter(ch, d, filename) ==
    LET r == cached_load_json(ch, d, filename)
    IN  IF r.ok THEN [ch EXCEPT ![filename] = Cached(r.data)] ELSE ch

\* The records of cities.json and immigration_guides.json, as far as the
\* loader is concerned.
CityLists == {<< >>, <<[province |-> Str(<<"Ontario">>)]>>}
GuideLists == {<< >>, <<[topic |-> Str(<<"banking">>)]>>}

\* ------------------------------------------------------------------------
\* difflib.SequenceMatcher under test: two texts and both ratios
\* ------------------------------------------------------------------------
\* No ratio computed yet.
NoRatio == [num |-> 0, den |-> 0]
NoSm == [a |-> << >>, b |-> << >>, ab |-> NoRatio, ba |-> NoRatio]

\* ------------------------------------------------------------------------
\* The assistant page before any run
\* ------------------------------------------------------------------------
NoUi == [phase |-> "fresh", ask |-> FALSE, question |-> << >>,
         ai_called |-> FALSE, ai_answer |-> None,
         faq |-> 0, score |-> [num |-> 0, den |-> 1],
         shown |-> {}, transparency |-> FALSE]

\* ------------------------------------------------------------------------
\* generate_ai_answer, the cities page and translate_dynamic before any use
\* ------------------------------------------------------------------------
NoRequest == [sent |-> FALSE, lang |-> "en", question |-> << >>, ref |-> FALSE]
NoAiResult == [answer |-> None, error |-> None, raised |-> FALSE, request |-> NoRequest]
NoAiCall == [phase |-> "idle",
             w |-> [env |-> [library |-> FALSE, secret |-> None, environ |-> None],
                    api |-> [raises |-> FALSE, content |-> None]],
             user_question |-> << >>, faq |-> 0, lang_code |-> "en",
             result |-> NoAiResult]

NoCityPage == [phase |-> "fresh", province_choice |-> Str(<<"(all)">>),
               preferred_region |-> {}, family_friendly |-> FALSE, filtered |-> << >>]

NoTrCall == [phase |-> "idle", session_lang |-> None, item |-> << >>, key |-> <<"name">>,
             result |-> None, raised |-> FALSE]

\* ------------------------------------------------------------------------
\* State
\* ------------------------------------------------------------------------
VARIABLES
    faqs,        \* the module-level list loaded from faqs.json
    pc,          \* per caller: "idle", "scan", "done", "raised"
    arg,         \* per caller: the arguments of its current call
    query,       \* per caller: the local `query` after strip()
    examined,    \* per caller: records the for loop has taken so far
    best,        \* per caller: the cell of `best`: position in faqs, 0 for None
    best_score,  \* per caller: the cell of `best_score`
    ret,         \* per caller: the returned pair, record as position, 0 for None
    ref,         \* an earlier call kept for comparison: its arguments and result
    disk,        \* per data file: whether it exists, and the list it holds
    cache,       \* per data file: the value st.cache_data keeps for load_json
    cities,      \* the module-level list loaded from cities.json
    guides,      \* the module-level list loaded from immigration_guides.json
    run,         \* the script run: "up", or "crashed" by an uncaught exception
    sm,          \* two texts and their ratio() taken in both orders
    ui,          \* the assistant page: its inputs and what the run has shown
    aiCall,      \* a call of generate_ai_answer: its surroundings, arguments, result
    cityPage,    \* the cities page: the filter widgets and the list shown
    trCall       \* a call of translate_dynamic: language, item, key, result

\* The helpers and the cities page, which the matcher and the assistant
\* page's own steps leave alone.
auxVars == <<aiCall, cityPage, trCall>>

\* What the matcher itself never touches.
envVars == <<disk, cache, cities, guides, run, sm, ui, auxVars>>

vars == <<faqs, pc, arg, query, examined, best, best_score, ret, ref, envVars>>

Callers == DOMAIN pc

NoArg == [query |-> None, threshold |-> Zero]
NoRet == [record |-> 0, score |-> Zero]
NoRef == [taken |-> FALSE, arg |-> NoArg, ret |-> NoRet]

\* The callers before any call.
InitCallers(cs) ==
    /\ pc = [c \in cs |-> "idle"]
    /\ arg = [c \in cs |-> NoArg]
    /\ query = [c \in cs |-> << >>]
    /\ examined = [c \in cs |-> 0]
    /\ best = [c \in cs |-> 0]
    /\ best_score = [c \in cs |-> Zero]
    /\ ret = [c \in cs |-> NoRet]
    /\ ref = NoRef

\* The script has run lines 40-42 once: faqs.json held the corpus, the
\* other two files were absent.
InitLoaded ==
    /\ disk = [f \in Files |-> IF f = FaqsFile THEN File(faqs) ELSE NoFile]
    /\ cache = [f \in Files |-> IF f = FaqsFile THEN Cached(faqs) ELSE Cached(<< >>)]
    /\ cities = << >>
    /\ guides = << >>
    /\ run = "up"

\* No helper has been called and the cities page has not been opened.
InitAux ==
    /\ aiCall = NoAiCall
    /\ cityPage = NoCityPage
    /\ trCall = NoTrCall

InitFor(cs, corpora) ==
    /\ faqs \in corpora
    /\ InitCallers(cs)
    /\ InitLoaded
    /\ sm = NoSm
    /\ ui = NoUi
    /\ InitAux

Init == InitFor({1}, ListsUpTo(FaqRecords, MaxFaqs))

\* Line 49, `threshold: float = 0.55`: a call may leave the threshold out.
Omitted == [num |-> 0, den |-> 0]

\* A default of 0.75.
DefaultThreshold_high == Frac(3, 4)

DefaultThreshold == Frac(11, 20)

\* The threshold the body of the call sees.
ThresholdOf(th) == IF th = Omitted THEN DefaultThreshold ELSE th

\* best and best_score as module-level globals: one frame for every call.
Frame_global(c) == 1

\* Lines 58-59: best and best_score are local variables, so every call has
\* its own frame for them.
Frame(c) == c

\* An early return of (None, 1.0).
EarlyResult_one == [record |-> 0, score |-> One]

\* Line 56: the pair of the early return.
EarlyResult == [record |-> 0, score |-> Zero]

\* best_score not assigned at the start of the call: the cell keeps the value
\* of the call before.
InitialBestScore_stale(c) == best_score[Frame(c)]

\* Line 59: the value best_score starts the scan with.
InitialBestScore(c) == Zero

\* `score < best_score`: the comparison turned around.
Improves_lt(score, running) == Less(score, running)

\* `score >= best_score`: a later record of equal score replaces the best.
Improves_ge(score, running) == ~Less(score, running)

\* Line 64: the test that replaces the running best.
Improves(score, running) == Greater(score, running)

\* Below the threshold (None, 0.0) is returned instead of the best score.
Decide_zero(b, b_score, threshold) ==
    IF Less(b_score, threshold)
    THEN [record |-> 0, score |-> Zero]
    ELSE [record |-> b, score |-> b_score]

\* `best_score <= threshold`: a score equal to the threshold is no match.
Decide_exclusive(b, b_score, threshold) ==
    IF ~Less(threshold, b_score)
    THEN [record |-> 0, score |-> b_score]
    ELSE [record |-> b, score |-> b_score]

\* The best record is returned whatever the threshold.
Decide_nothreshold(b, b_score, threshold) == [record |-> b, score |-> b_score]

\* Lines 68-70: the pair returned after the scan.
Decide(b, b_score, threshold) ==
    IF Less(b_score, threshold)
    THEN [record |-> 0, score |-> b_score]
    ELSE [record |-> b, score |-> b_score]

\* Lines 54-56: the query is empty after strip(), or faqs is empty.  The
\* cells of best and best_score are not assigned on this path.
EarlyReturnOn(c, queries, thresholds) ==
    /\ pc[c] = "idle"
    /\ \E qa \in queries, th \in thresholds :
          /\ Strip(OrEmpty(qa)) = << >> \/ faqs = << >>
          /\ arg' = [arg EXCEPT ![c] = [query |-> qa, threshold |-> th]]
          /\ query' = [query EXCEPT ![c] = Strip(OrEmpty(qa))]
    /\ pc' = [pc EXCEPT ![c] = "done"]
    /\ ret' = [ret EXCEPT ![c] = EarlyResult]
    /\ UNCHANGED <<faqs, examined, best, best_score, ref, envVars>>

\* Lines 54-59: the call passes the guard and sets up the scan.
BeginScanOn(c, queries, thresholds) ==
    /\ pc[c] = "idle"
    /\ \E qa \in queries, th \in thresholds :
          /\ ~(Strip(OrEmpty(qa)) = << >> \/ faqs = << >>)
          /\ arg' = [arg EXCEPT ![c] = [query |-> qa, threshold |-> th]]
          /\ query' = [query EXCEPT ![c] = Strip(OrEmpty(qa))]
    /\ pc' = [pc EXCEPT ![c] = "scan"]
    /\ best' = [best EXCEPT ![Frame(c)] = 0]
    /\ best_score' = [best_score EXCEPT ![Frame(c)] = InitialBestScore(c)]
    /\ UNCHANGED <<faqs, examined, ret, ref, envVars>>

EarlyReturn(c) == EarlyReturnOn(c, QueryArgs, Thresholds)

BeginScan(c) == BeginScanOn(c, QueryArgs, Thresholds)

\* faq.setdefault("question", "") in place of faq.get("question", ""): a
\* record without the key gets it.
ScanStep_setdefault(c) ==
    /\ pc[c] = "scan"
    /\ examined[c] < Len(faqs)
    /\ LET k == examined[c] + 1
           q_text == DictGet(faqs[k], Str(<< >>))
       IN  /\ q_text.tag = "str"
           /\ LET score == RatioOf[Lower(query[c])][Lower(q_text.s)]
              IN  IF Improves(score, best_score[Frame(c)])
                  THEN /\ best_score' = [best_score EXCEPT ![Frame(c)] = score]
                       /\ best' = [best EXCEPT ![Frame(c)] = k]
                  ELSE UNCHANGED <<best, best_score>>
           /\ examined' = [examined EXCEPT ![c] = k]
           /\ faqs' = [faqs EXCEPT ![k] = Faq(q_text)]
    /\ UNCHANGED <<pc, arg, query, ret, ref, envVars>>

\* Lines 61-66: one iteration of the for loop.
ScanStep(c) ==
    /\ pc[c] = "scan"
    /\ examined[c] < Len(faqs)
    /\ LET k == examined[c] + 1
           q_text == DictGet(faqs[k], Str(<< >>))
       IN  /\ q_text.tag = "str"
           /\ LET score == RatioOf[Lower(query[c])][Lower(q_text.s)]
              IN  IF Improves(score, best_score[Frame(c)])
                  THEN /\ best_score' = [best_score EXCEPT ![Frame(c)] = score]
                       /\ best' = [best EXCEPT ![Frame(c)] = k]
                  ELSE UNCHANGED <<best, best_score>>
           /\ examined' = [examined EXCEPT ![c] = k]
    /\ UNCHANGED <<faqs, pc, arg, query, ret, ref, envVars>>

\* Line 63 on a record whose question is null: None.lower() raises AttributeError.
ScanRaise(c) ==
    /\ pc[c] = "scan"
    /\ examined[c] < Len(faqs)
    /\ DictGet(faqs[examined[c] + 1], Str(<< >>)).tag # "str"
    /\ pc' = [pc EXCEPT ![c] = "raised"]
    /\ examined' = [examined EXCEPT ![c] = examined[c] + 1]
    /\ UNCHANGED <<faqs, arg, query, best, best_score, ret, ref, envVars>>

\* Lines 68-70: the loop is over; compare with the threshold and return.
Finish(c) ==
    /\ pc[c] = "scan"
    /\ examined[c] = Len(faqs)
    /\ ret' = [ret EXCEPT ![c] = Decide(best[Frame(c)], best_score[Frame(c)],
                                         ThresholdOf(arg[c].threshold))]
    /\ pc' = [pc EXCEPT ![c] = "done"]
    /\ UNCHANGED <<faqs, arg, query, examined, best, best_score, ref, envVars>>

\* The caller is done with the outcome of a call (the script run ends): the
\* arguments and the result are dropped.  The cells of best and best_score
\* keep what the call left in them until lines 58-59 of a later call assign
\* them.
Forget(c) ==
    /\ pc[c] \in {"done", "raised"}
    /\ pc' = [pc EXCEPT ![c] = "idle"]
    /\ arg' = [arg EXCEPT ![c] = NoArg]
    /\ query' = [query EXCEPT ![c] = << >>]
    /\ examined' = [examined EXCEPT ![c] = 0]
    /\ ret' = [ret EXCEPT ![c] = NoRet]
    /\ UNCHANGED <<faqs, best, best_score, ref, envVars>>

Next ==
    \E c \in Callers :
        \/ Forget(c)
        \/ EarlyReturn(c)
        \/ BeginScan(c)
        \/ ScanStep(c)
        \/ ScanRaise(c)
        \/ Finish(c)

Spec == Init /\ [][Next]_vars

\* ------------------------------------------------------------------------
\* Repeated calls: one completed call is kept and later calls are compared
\* with it.
\* ------------------------------------------------------------------------
DetMaxFaqs == MaxFaqs - 1
DetQueryArgs == {Str(s) : s \in StringsUpTo(MaxLen)} \cup {None}
DetThresholds == {Zero, One}

InitDet == InitFor({1}, ListsUpTo(FaqRecords, DetMaxFaqs))

\* The caller keeps the arguments and the result of a completed call for
\* later comparison, and the call is over.
Remember(c) ==
    /\ pc[c] = "done"
    /\ ~ref.taken
    /\ ref' = [taken |-> TRUE, arg |-> arg[c], ret |-> ret[c]]
    /\ pc' = [pc EXCEPT ![c] = "idle"]
    /\ arg' = [arg EXCEPT ![c] = NoArg]
    /\ query' = [query EXCEPT ![c] = << >>]
    /\ examined' = [examined EXCEPT ![c] = 0]
    /\ ret' = [ret EXCEPT ![c] = NoRet]
    /\ UNCHANGED <<faqs, best, best_score, envVars>>

EarlyReturnDet(c) == EarlyReturnOn(c, DetQueryArgs, DetThresholds)

BeginScanDet(c) == BeginScanOn(c, DetQueryArgs, DetThresholds)

NextDet ==
    \E c \in Callers :
        \/ Forget(c)
        \/ EarlyReturnDet(c)
        \/ BeginScanDet(c)
        \/ ScanStep(c)
        \/ ScanRaise(c)
        \/ Finish(c)
        \/ Remember(c)

SpecDet == InitDet /\ [][NextDet]_vars

\* ------------------------------------------------------------------------
\* The threshold as a parameter of the call: left out, or passed.  One
\* completed call is kept, and the calls after it repeat its query.
\* ------------------------------------------------------------------------
ThrThresholds == {Omitted, Zero, Frac(11, 20), One}

ThrQueryArgs == IF ref.taken THEN {ref.arg.query} ELSE QueryArgs

InitThr == InitFor({1}, ListsUpTo(FaqRecords, DetMaxFaqs))

EarlyReturnThr(c) == EarlyReturnOn(c, ThrQueryArgs, ThrThresholds)

BeginScanThr(c) == BeginScanOn(c, ThrQueryArgs, ThrThresholds)

NextThr ==
    \E c \in Callers :
        \/ Forget(c)
        \/ EarlyReturnThr(c)
        \/ BeginScanThr(c)
        \/ ScanStep(c)
        \/ ScanRaise(c)
        \/ Finish(c)
        \/ Remember(c)

SpecThr == InitThr /\ [][NextThr]_vars

\* ------------------------------------------------------------------------
\* The ratio of line 63 on its own: two lower-cased texts, compared in both
\* orders.
\* ------------------------------------------------------------------------
RatioMaxLen == 4

SmTexts == {Lower(s) : s \in StringsUpTo(RatioMaxLen)}

InitRatio ==
    /\ faqs = << >>
    /\ InitCallers({1})
    /\ InitLoaded
    /\ sm \in {[a |-> a, b |-> b, ab |-> NoRatio, ba |-> NoRatio] : a \in SmTexts, b \in SmTexts}
    /\ ui = NoUi
    /\ InitAux

\* SequenceMatcher(None, a, b).ratio()
RatioForward ==
    /\ sm.ab = NoRatio
    /\ sm' = [sm EXCEPT !.ab = Ratio(sm.a, sm.b)]
    /\ UNCHANGED <<faqs, pc, arg, query, examined, best, best_score, ret, ref,
                   disk, cache, cities, guides, run, ui, auxVars>>

\* SequenceMatcher(None, b, a).ratio()
RatioBackward ==
    /\ sm.ba = NoRatio
    /\ sm' = [sm EXCEPT !.ba = Ratio(sm.b, sm.a)]
    /\ UNCHANGED <<faqs, pc, arg, query, examined, best, best_score, ret, ref,
                   disk, cache, cities, guides, run, ui, auxVars>>

NextRatio == RatioForward \/ RatioBackward

SpecRatio == InitRatio /\ [][NextRatio]_vars

\* ------------------------------------------------------------------------
\* Loading the data files: the server process starts with an empty cache,
\* every script run executes lines 40-42, and files may disappear from the
\* data directory while the process lives.
\* ------------------------------------------------------------------------
LoadQueryArgs == {None, Str(<<"a">>)}
LoadThresholds == {Zero}

FileChoices(lists) == {NoFile} \cup {File(l) : l \in lists}

InitLoad ==
    /\ disk \in {[f \in Files |-> IF f = FaqsFile THEN x
                                  ELSE IF f = CitiesFile THEN y ELSE z] :
                     x \in FileChoices(ListsUpTo(FaqRecords, DetMaxFaqs)),
                     y \in FileChoices(CityLists \ {<< >>}),
                     z \in FileChoices(GuideLists \ {<< >>})}
    /\ cache = [f \in Files |-> NotCached]
    /\ faqs = << >>
    /\ cities = << >>
    /\ guides = << >>
    /\ run = "starting"
    /\ InitCallers({1})
    /\ sm = NoSm
    /\ ui = NoUi
    /\ InitAux

\* Lines 40-42: the three loads in order.  An exception ends the run at the
\* assignment that raised; the assignments before it have happened.
LoadData ==
    /\ run = "starting"
    /\ LET r1 == cached_load_json(cache, disk, FaqsFile)
           c1 == CacheAfter(cache, disk, FaqsFile)
           r2 == cached_load_json(c1, disk, CitiesFile)
           c2 == CacheAfter(c1, disk, CitiesFile)
           r3 == cached_load_json(c2, disk, GuidesFile)
           c3 == CacheAfter(c2, disk, GuidesFile)
       IN  /\ faqs' = IF r1.ok THEN r1.data ELSE faqs
           /\ cities' = IF r1.ok /\ r2.ok THEN r2.data ELSE cities
           /\ guides' = IF r1.ok /\ r2.ok /\ r3.ok THEN r3.data ELSE guides
           /\ cache' = IF ~r1.ok THEN cache ELSE IF ~r2.ok THEN c1 ELSE c3
           /\ run' = IF r1.ok /\ r2.ok /\ r3.ok THEN "up" ELSE "crashed"
    /\ UNCHANGED <<pc, arg, query, examined, best, best_score, ret, ref, disk, sm, ui, auxVars>>

\* A user interaction makes Streamlit run the script again, in the same
\* process and with the same cache.
StartRun ==
    /\ run = "up"
    /\ \A c \in Callers : pc[c] = "idle"
    /\ run' = "starting"
    /\ UNCHANGED <<faqs, pc, arg, query, examined, best, best_score, ret, ref,
                   disk, cache, cities, guides, sm, ui, auxVars>>

\* A data file is removed from the data directory.
RemoveFile(f) ==
    /\ disk[f].exists
    /\ disk' = [disk EXCEPT ![f] = NoFile]
    /\ UNCHANGED <<faqs, pc, arg, query, examined, best, best_score, ret, ref,
                   cache, cities, guides, run, sm, ui, auxVars>>

EarlyReturnLoad(c) == run = "up" /\ EarlyReturnOn(c, LoadQueryArgs, LoadThresholds)

BeginScanLoad(c) == run = "up" /\ BeginScanOn(c, LoadQueryArgs, LoadThresholds)

NextLoad ==
    \/ LoadData
    \/ StartRun
    \/ \E f \in Files : RemoveFile(f)
    \/ \E c \in Callers :
          \/ Forget(c)
          \/ EarlyReturnLoad(c)
          \/ BeginScanLoad(c)
          \/ ScanStep(c)
          \/ ScanRaise(c)
          \/ Finish(c)

SpecLoad == InitLoad /\ [][NextLoad]_vars

\* ------------------------------------------------------------------------
\* The assistant page (lines 530-576): a script run reads the ask button and
\* the question box, calls the matcher and the AI, and renders.
\* ------------------------------------------------------------------------
\* Python truthiness of a string or None.
Truthy(v) == v.tag = "str" /\ v.s # << >>

\* Python truthiness of what best_faq_match returned: None and the empty
\* dict are false.
FaqTruthy(k) == k # 0 /\ faqs[k] # Faq(Absent)

\* st.secrets.get raises when there is no secrets file.
NoSecretsFile == [tag |-> "raises", s |-> << >>]

\* What surrounds the AI call: whether `import openai` worked (lines 9-14),
\* OPENAI_API_KEY in the Streamlit secrets and in the environment (absent,
\* empty or set), and what the request does: raise, or answer with a message
\* whose content is a text, the empty text or null.
AiEnvs ==
    [library : BOOLEAN,
     secret : {None, Str(<< >>), Str(<<"k">>), NoSecretsFile},
     environ : {None, Str(<< >>), Str(<<"k">>)}]

AiApis ==
    {[raises |-> TRUE, content |-> None]}
        \cup {[raises |-> FALSE, content |-> x] : x \in {None, Str(<< >>), Str(<<"a">>)}}

AiWorlds == [env : AiEnvs, api : AiApis]

\* Lines 100-120: whether a configured client is returned (not None).
get_openai_client(e) ==
    IF ~e.library THEN FALSE
    ELSE LET from_secrets == IF e.secret = NoSecretsFile THEN None ELSE e.secret
             api_key == IF ~Truthy(from_secrets) THEN e.environ ELSE from_secrets
         IN  Truthy(api_key)

NotConfiguredMessage == Str(<<"AI is not configured">>)
AiErrorMessage == Str(<<"AI error: ">>)

\* The request of lines 169-176: the language of the system message, the
\* question, and whether the closest FAQ is quoted (`if faq:`, line 137).
AiRequest(user_question, faq, lang_code) ==
    [sent |-> TRUE, lang |-> IF lang_code = "am" THEN "am" ELSE "en",
     question |-> user_question, ref |-> FaqTruthy(faq)]

\* The call without its try/except: an exception of the request leaves
\* the function.
generate_ai_answer_noexcept(w, user_question, faq, lang_code) ==
    IF ~get_openai_client(w.env)
    THEN [answer |-> None, error |-> NotConfiguredMessage, raised |-> FALSE,
          request |-> NoRequest]
    ELSE IF w.api.raises
         THEN [answer |-> None, error |-> None, raised |-> TRUE,
               request |-> AiRequest(user_question, faq, lang_code)]
         ELSE [answer |-> w.api.content, error |-> None, raised |-> FALSE,
               request |-> AiRequest(user_question, faq, lang_code)]

\* Lines 123-181: the pair (answer, error_message), whether the call
\* raised, and the request it sent, if any.
generate_ai_answer(w, user_question, faq, lang_code) ==
    IF ~get_openai_client(w.env)
    THEN [answer |-> None, error |-> NotConfiguredMessage, raised |-> FALSE,
          request |-> NoRequest]
    ELSE IF w.api.raises
         THEN [answer |-> None, error |-> AiErrorMessage, raised |-> FALSE,
               request |-> AiRequest(user_question, faq, lang_code)]
         ELSE [answer |-> w.api.content, error |-> None, raised |-> FALSE,
               request |-> AiRequest(user_question, faq, lang_code)]

\* `if ask and user_question:` without strip().
PageAccepts_nostrip(ask, user_question) == ask /\ user_question # << >>

\* Line 530: `if ask and user_question.strip():`
PageAccepts(ask, user_question) == ask /\ Strip(user_question) # << >>

\* Lines 545-564: what the answer section writes.
AnswerSection(ai, faq) ==
    IF Truthy(ai.answer) THEN {"ai_answer"}
    ELSE (IF Truthy(ai.error) THEN {"ai_error"} ELSE {})
             \cup (IF FaqTruthy(faq) THEN {"faq_answer"} ELSE {"warning"})

\* The transparency section written only in the fallback branch.
ShowsTransparency_fallback(ai, faq) == ~Truthy(ai.answer) /\ FaqTruthy(faq)

\* Line 568: `if faq:` before the transparency section.
ShowsTransparency(ai, faq) == FaqTruthy(faq)

PageQuestions == StringsUpTo(MaxLen + 1)

\* Line 335: lang_code is "am" or "en".
LangCodes == {"en", "am"}

InitPage == InitFor({1}, ListsUpTo(FaqRecords, DetMaxFaqs))

\* A script run starts with the widget values of the interaction.  Line 530:
\* without the button or with a blank question the run renders no answer.
PageRun ==
    /\ ui.phase \in {"fresh", "rendered", "crashed"}
    /\ \E ask \in BOOLEAN, user_question \in PageQuestions :
          ui' = [NoUi EXCEPT !.ask = ask, !.question = user_question,
                             !.phase = IF PageAccepts(ask, user_question)
                                       THEN "matching" ELSE "rendered"]
    /\ UNCHANGED <<faqs, pc, arg, query, examined, best, best_score, ret, ref,
                   disk, cache, cities, guides, run, sm, auxVars>>

\* Line 531: best_faq_match(user_question), the threshold left out.
EarlyReturnPage(c) ==
    /\ ui.phase = "matching"
    /\ EarlyReturnOn(c, {Str(ui.question)}, {Omitted})

BeginScanPage(c) ==
    /\ ui.phase = "matching"
    /\ BeginScanOn(c, {Str(ui.question)}, {Omitted})

\* Lines 534-576: the AI is asked, and the answer section and the
\* transparency section are written; the script run is over.
PageRender(c) ==
    /\ ui.phase = "matching"
    /\ pc[c] = "done"
    /\ \E w \in AiWorlds, lang_code \in LangCodes :
          LET faq == ret[c].record
              ai == generate_ai_answer(w, ui.question, faq, lang_code)
          IN  ui' = [ui EXCEPT !.phase = "rendered",
                               !.ai_called = TRUE,
                               !.ai_answer = ai.answer,
                               !.faq = faq,
                               !.score = ret[c].score,
                               !.shown = AnswerSection(ai, faq),
                               !.transparency = ShowsTransparency(ai, faq)]
    /\ pc' = [pc EXCEPT ![c] = "idle"]
    /\ arg' = [arg EXCEPT ![c] = NoArg]
    /\ query' = [query EXCEPT ![c] = << >>]
    /\ examined' = [examined EXCEPT ![c] = 0]
    /\ ret' = [ret EXCEPT ![c] = NoRet]
    /\ UNCHANGED <<faqs, best, best_score, ref, disk, cache, cities, guides, run, sm, auxVars>>

\* The exception of line 63 leaves best_faq_match and ends the script run:
\* nothing after line 531 is executed.
PageCrash(c) ==
    /\ ui.phase = "matching"
    /\ pc[c] = "raised"
    /\ ui' = [ui EXCEPT !.phase = "crashed"]
    /\ pc' = [pc EXCEPT ![c] = "idle"]
    /\ arg' = [arg EXCEPT ![c] = NoArg]
    /\ query' = [query EXCEPT ![c] = << >>]
    /\ examined' = [examined EXCEPT ![c] = 0]
    /\ ret' = [ret EXCEPT ![c] = NoRet]
    /\ UNCHANGED <<faqs, best, best_score, ref, disk, cache, cities, guides, run, sm, auxVars>>

NextPage ==
    \/ PageRun
    \/ \E c \in Callers :
          \/ EarlyReturnPage(c)
          \/ BeginScanPage(c)
          \/ ScanStep(c)
          \/ ScanRaise(c)
          \/ Finish(c)
          \/ PageRender(c)
          \/ PageCrash(c)

SpecPage == InitPage /\ [][NextPage]_vars

\* ------------------------------------------------------------------------
\* generate_ai_answer on its own: one call in given surroundings.
\* ------------------------------------------------------------------------
AiCorpora == {<< >>, <<Faq(Absent)>>, <<Faq(Str(<<"a">>))>>}
AiQuestions == {<< >>, <<"a">>}

InitAi ==
    /\ faqs \in AiCorpora
    /\ InitCallers({1})
    /\ InitLoaded
    /\ sm = NoSm
    /\ ui = NoUi
    /\ aiCall \in {[NoAiCall EXCEPT !.w = w, !.user_question = q, !.faq = f, !.lang_code = l] :
                       w \in AiWorlds, q \in AiQuestions, f \in 0..Len(faqs), l \in LangCodes}
    /\ cityPage = NoCityPage
    /\ trCall = NoTrCall

\* The call, from its first line to its return or its exception.
CallAi ==
    /\ aiCall.phase = "idle"
    /\ LET r == generate_ai_answer(aiCall.w, aiCall.user_question, aiCall.faq, aiCall.lang_code)
       IN  aiCall' = [aiCall EXCEPT !.phase = IF r.raised THEN "raised" ELSE "returned",
                                    !.result = r]
    /\ UNCHANGED <<faqs, pc, arg, query, examined, best, best_score, ret, ref,
                   disk, cache, cities, guides, run, sm, ui, cityPage, trCall>>

\* The caller is done with the result.
ForgetAi ==
    /\ aiCall.phase \in {"returned", "raised"}
    /\ aiCall' = [aiCall EXCEPT !.phase = "idle", !.result = NoAiResult]
    /\ UNCHANGED <<faqs, pc, arg, query, examined, best, best_score, ret, ref,
                   disk, cache, cities, guides, run, sm, ui, cityPage, trCall>>

NextAi == CallAi \/ ForgetAi

SpecAi == InitAi /\ [][NextAi]_vars

\* ------------------------------------------------------------------------
\* The cities page (lines 584-631) with the sidebar filters (lines 415-430).
\* A city is a dict: a record that has a field only for a key it holds.
\* ------------------------------------------------------------------------
MaxCities == 2

\* A dict with the given keys, the values taken from a record of all keys.
Restrict(full, keys) == [k \in keys |-> full[k]]

\* dict.get(key, default)
Get(item, key, default) == IF key \in DOMAIN item THEN item[key] ELSE default

CityRecords ==
    {Restrict([province |-> p, region_label |-> r, family_friendly |-> f], keys) :
        p \in {Str(<<"Ontario">>), Str(<<"Quebec">>)},
        r \in {Str(<< >>), Str(<<"Atlantic">>)},
        f \in BOOLEAN,
        keys \in SUBSET {"province", "region_label", "family_friendly"}}

\* Line 417: the regions the sidebar offers, as far as the cities above and
\* one region without a city need them.
RegionOptions == {Str(<<"Atlantic">>), Str(<<"Central">>)}

AllProvinces == Str(<<"(all)">>)

\* Lines 72-75: the provinces of the loaded cities.
list_provinces == {Get(cities[i], "province", Str(<<"Unknown">>)) : i \in 1..Len(cities)}

\* Line 613: the test of the province filter.
ProvinceKeeps(c, province_choice) == Get(c, "province", None) = province_choice

\* The region filter without `or not c.get("region_label")`.
RegionKeeps_strict(c, preferred_region) ==
    Get(c, "region_label", None) \in preferred_region

\* Lines 616-620: the test of the region filter.
RegionKeeps(c, preferred_region) ==
    \/ Get(c, "region_label", None) \in preferred_region
    \/ ~Truthy(Get(c, "region_label", None))

\* Line 623: the test of the family filter.
FamilyKeeps(c) == Get(c, "family_friendly", FALSE)

\* Lines 611-623: the three filters one after the other, each a new list.
FilterCities(province_choice, preferred_region, family_friendly) ==
    LET byProvince == IF province_choice # AllProvinces
                      THEN SelectSeq(cities, LAMBDA c : ProvinceKeeps(c, province_choice))
                      ELSE cities
        byRegion == IF preferred_region # {}
                    THEN SelectSeq(byProvince, LAMBDA c : RegionKeeps(c, preferred_region))
                    ELSE byProvince
    IN  IF family_friendly
        THEN SelectSeq(byRegion, LAMBDA c : FamilyKeeps(c))
        ELSE byRegion

InitCities ==
    /\ cities \in ListsUpTo(CityRecords, MaxCities)
    /\ faqs = << >>
    /\ guides = << >>
    /\ disk = [f \in Files |-> IF f = CitiesFile THEN File(cities) ELSE NoFile]
    /\ cache = [f \in Files |-> IF f = CitiesFile THEN Cached(cities) ELSE Cached(<< >>)]
    /\ run = "up"
    /\ InitCallers({1})
    /\ sm = NoSm
    /\ ui = NoUi
    /\ aiCall = NoAiCall
    /\ cityPage = NoCityPage
    /\ trCall = NoTrCall

\* Lines 587-588: without cities the page shows an error and no filter.
RenderNoCities ==
    /\ cityPage.phase = "fresh"
    /\ cities = << >>
    /\ \E preferred_region \in SUBSET RegionOptions, family_friendly \in BOOLEAN :
          cityPage' = [phase |-> "error", province_choice |-> AllProvinces,
                       preferred_region |-> preferred_region,
                       family_friendly |-> family_friendly, filtered |-> << >>]
    /\ UNCHANGED <<faqs, pc, arg, query, examined, best, best_score, ret, ref,
                   disk, cache, cities, guides, run, sm, ui, aiCall, trCall>>

\* Lines 589-631: a run of the page with the values of the sidebar widgets
\* and of the province box; the list of cards is the filtered list.
RenderCities ==
    /\ cityPage.phase = "fresh"
    /\ cities # << >>
    /\ \E province_choice \in {AllProvinces} \cup list_provinces,
          preferred_region \in SUBSET RegionOptions,
          family_friendly \in BOOLEAN :
          cityPage' = [phase |-> "rendered", province_choice |-> province_choice,
                       preferred_region |-> preferred_region,
                       family_friendly |-> family_friendly,
                       filtered |-> FilterCities(province_choice, preferred_region,
                                                 family_friendly)]
    /\ UNCHANGED <<faqs, pc, arg, query, examined, best, best_score, ret, ref,
                   disk, cache, cities, guides, run, sm, ui, aiCall, trCall>>

\* The user goes to another page: what the cities page showed is gone.
LeaveCities ==
    /\ cityPage.phase # "fresh"
    /\ cityPage' = NoCityPage
    /\ UNCHANGED <<faqs, pc, arg, query, examined, best, best_score, ret, ref,
                   disk, cache, cities, guides, run, sm, ui, aiCall, trCall>>

NextCities == RenderNoCities \/ RenderCities \/ LeaveCities

SpecCities == InitCities /\ [][NextCities]_vars

\* ------------------------------------------------------------------------
\* translate_dynamic (lines 194-203).  A key is a sequence of pieces so that
\* f"{key}_am" is a concatenation; an item is a dict from keys to texts or
\* null.
\* ------------------------------------------------------------------------
TrKeys == {<<"name">>, <<"summary">>}

AmKey(key) == key \o <<"_am">>

\* What a key can hold: a text that tells which key it came from, the empty
\* text, or null.
TrValues(k) == {Str(k), Str(<< >>), None}

TrItems ==
    UNION {{item \in [keys -> UNION {TrValues(k) : k \in keys}] :
                \A k \in keys : item[k] \in TrValues(k)} :
           keys \in SUBSET (TrKeys \cup {AmKey(k) : k \in TrKeys})}

\* st.session_state["lang"]: not set before line 336, then "en" or "am".
SessionLangs == {None, Str(<<"en">>), Str(<<"am">>)}

\* item[key] in place of item.get(key, ""): a missing key raises KeyError.
translate_dynamic_index(session_lang, item, key) ==
    LET lang == IF session_lang = None THEN Str(<<"en">>) ELSE session_lang
        Index(k) == IF k \in DOMAIN item THEN [value |-> item[k], raised |-> FALSE]
                    ELSE [value |-> None, raised |-> TRUE]
    IN  IF lang = Str(<<"en">>) THEN Index(key)
        ELSE IF AmKey(key) \in DOMAIN item THEN Index(AmKey(key)) ELSE Index(key)

\* Lines 199-203.
translate_dynamic(session_lang, item, key) ==
    LET lang == IF session_lang = None THEN Str(<<"en">>) ELSE session_lang
    IN  IF lang = Str(<<"en">>)
        THEN [value |-> Get(item, key, Str(<< >>)), raised |-> FALSE]
        ELSE LET am_key == AmKey(key)
             IN  [value |-> Get(item, am_key, Get(item, key, Str(<< >>))),
                  raised |-> FALSE]

InitTr ==
    /\ faqs = << >>
    /\ InitCallers({1})
    /\ InitLoaded
    /\ sm = NoSm
    /\ ui = NoUi
    /\ aiCall = NoAiCall
    /\ cityPage = NoCityPage
    /\ trCall \in {[NoTrCall EXCEPT !.session_lang = l, !.item = item, !.key = k] :
                       l \in SessionLangs, item \in TrItems, k \in TrKeys}

\* The call, from its first line to its return or its exception.
CallTr ==
    /\ trCall.phase = "idle"
    /\ LET r == translate_dynamic(trCall.session_lang, trCall.item, trCall.key)
       IN  trCall' = [trCall EXCEPT !.phase = IF r.raised THEN "raised" ELSE "returned",
                                    !.result = r.value,
                                    !.raised = r.raised]
    /\ UNCHANGED <<faqs, pc, arg, query, examined, best, best_score, ret, ref,
                   disk, cache, cities, guides, run, sm, ui, aiCall, cityPage>>

\* The caller is done with the result.
ForgetTr ==
    /\ trCall.phase \in {"returned", "raised"}
    /\ trCall' = [trCall EXCEPT !.phase = "idle", !.result = None, !.raised = FALSE]
    /\ UNCHANGED <<faqs, pc, arg, query, examined, best, best_score, ret, ref,
                   disk, cache, cities, guides, run, sm, ui, aiCall, cityPage>>

NextTr == CallTr \/ ForgetTr

SpecTr == InitTr /\ [][NextTr]_vars

\* ------------------------------------------------------------------------
\* Concurrent calls: two callers against one corpus, their steps interleaved
\* in every order, without a lock.
\* ------------------------------------------------------------------------
ConcQueryArgs == {None, Str(<<"a">>), Str(<<"A", "a">>)}

InitConc == InitFor({1, 2}, ListsUpTo(FaqRecords, DetMaxFaqs))

EarlyReturnConc(c) == EarlyReturnOn(c, ConcQueryArgs, DetThresholds)

BeginScanConc(c) == BeginScanOn(c, ConcQueryArgs, DetThresholds)

NextConc ==
    \E c \in Callers :
        \/ Forget(c)
        \/ EarlyReturnConc(c)
        \/ BeginScanConc(c)
        \/ ScanStep(c)
        \/ ScanRaise(c)
        \/ Finish(c)

SpecConc == InitConc /\ [][NextConc]_vars

\* ------------------------------------------------------------------------
\* Vocabulary of the properties, stated without the matcher's own helpers
\* ------------------------------------------------------------------------
\* The text of a query argument; an absent query has none.
QueryText(qa) == IF qa.tag = "str" THEN qa.s ELSE << >>

\* The text without its leading and trailing white space.
Trimmed(s) ==
    LET inked == {k \in 1..Len(s) : s[k] # " "}
    IN  IF inked = {} THEN << >>
        ELSE SubSeq(s, CHOOSE k \in inked : \A m \in inked : k <= m,
                       CHOOSE k \in inked : \A m \in inked : k >= m)

\* The text in lower case.
Folded(s) == [k \in 1..Len(s) |-> IF s[k] = "A" THEN "a" ELSE s[k]]

\* The question of a record; a record without the field has the empty one.
QuestionText(faq) == IF faq.question.tag = "str" THEN faq.question.s ELSE << >>

\* Every query argument trimmed and lower-cased, and every question
\* lower-cased, computed once.
NeedleTable == [qa \in QueryArgs |-> Folded(Trimmed(QueryText(qa)))]
QuestionTable == [qv \in QuestionValues |-> Folded(QuestionText(Faq(qv)))]

\* The query of caller c's call as the matcher is to compare it.
NeedleOf(c) == NeedleTable[arg[c].query]

\* The similarity of the query of c's call with the k-th record.
ScoreOf(c, k) == RatioOf[NeedleOf(c)][QuestionTable[faqs[k].question]]

\* The greatest similarity over the whole corpus (the corpus is not empty).
MaxScoreOf(c) ==
    LET scores == {ScoreOf(c, k) : k \in 1..Len(faqs)}
    IN  CHOOSE x \in scores : \A y \in scores : ~Less(x, y)

\* c's call has returned, and its query and the corpus were not empty.
ReturnedFromScan(c) ==
    /\ pc[c] = "done"
    /\ NeedleOf(c) # << >>
    /\ faqs # << >>

\* c's call was made with a query that is absent, empty or all white space.
BlankQuery(c) ==
    \/ arg[c].query.tag = "none"
    \/ \A k \in 1..Len(arg[c].query.s) : arg[c].query.s[k] = " "

InUnitInterval(x) == ~Less(x, Zero) /\ ~Less(One, x)

\* The records whose lower-cased question is the lower-cased trimmed query.
SameQuestion(c) == {k \in 1..Len(faqs) : QuestionTable[faqs[k].question] = NeedleOf(c)}

FirstOf(S) == CHOOSE k \in S : \A m \in S : k <= m

\* Every record has a question that is a string, or no question field.
QuestionsMissingOrText == \A k \in 1..Len(faqs) : faqs[k].question.tag \in {"str", "absent"}

\* No record has a question field, and there is a record.
QuestionsAllMissing ==
    /\ faqs # << >>
    /\ \A k \in 1..Len(faqs) : faqs[k].question.tag = "absent"

\* The greatest similarity over the first n records, 0.0 over none.
PrefixMaxOf(c, n) ==
    LET scores == {ScoreOf(c, k) : k \in 1..n} \cup {Zero}
    IN  CHOOSE x \in scores : \A y \in scores : ~Less(x, y)

\* What c's call returns when it runs alone: (None, 0.0) for an empty query or
\* corpus; otherwise the greatest similarity, with the first record that
\* attains it unless that similarity is 0.0 or below the threshold.
AloneResult(c) ==
    IF NeedleOf(c) = << >> \/ faqs = << >>
    THEN [record |-> 0, score |-> Zero]
    ELSE LET top == MaxScoreOf(c)
             th == IF arg[c].threshold = Omitted THEN Frac(11, 20) ELSE arg[c].threshold
         IN  IF top = Zero \/ Less(top, th)
             THEN [record |-> 0, score |-> top]
             ELSE [record |-> FirstOf({k \in 1..Len(faqs) : ScoreOf(c, k) = top}),
                   score |-> top]

\* The step is a run of lines 40-42.
LoadStep == run = "starting" /\ run' # "starting"

\* The module-level list bound to a data file.
ListOf(f) == IF f = FaqsFile THEN faqs ELSE IF f = CitiesFile THEN cities ELSE guides

\* The ask button was pressed and the question box holds more than white space.
AskedNonBlank == ui.ask /\ \E k \in 1..Len(ui.question) : ui.question[k] # " "

\* The three answers of the assistant page.
Answers == {"ai_answer", "faq_answer", "warning"}

\* The surroundings of the AI call give a client: the library is there and
\* a non-empty key is in the secrets or in the environment.
AiConfigured ==
    LET e == aiCall.w.env
    IN  /\ e.library
        /\ \/ e.secret.tag = "str" /\ Len(e.secret.s) > 0
           \/ e.environ.tag = "str" /\ Len(e.environ.s) > 0

\* The three cases of a call of generate_ai_answer that has ended.
AiCases ==
    LET r == aiCall.result
    IN  /\ aiCall.phase = "returned"
        /\ ~r.raised
        /\ ~AiConfigured =>
              (r.answer = None /\ r.error = NotConfiguredMessage /\ ~r.request.sent)
        /\ (AiConfigured /\ aiCall.w.api.raises) =>
              (r.answer = None /\ r.error = AiErrorMessage /\ r.request.sent)
        /\ (AiConfigured /\ ~aiCall.w.api.raises) =>
              (r.answer = aiCall.w.api.content /\ r.error = None /\ r.request.sent)

\* The city has the key and a value for it that is not empty.
HasText(c, key) == key \in DOMAIN c /\ c[key].tag = "str" /\ Len(c[key].s) > 0

\* The filters of the cities page that are active.
ProvinceActive == cityPage.province_choice # Str(<<"(all)">>)
RegionActive == cityPage.preferred_region # {}
FamilyActive == cityPage.family_friendly

\* The city passes every active filter: it is of the selected province, its
\* region is one of the preferred ones or it has none, it is family friendly.
PassesFilters(c) ==
    /\ ProvinceActive => ("province" \in DOMAIN c /\ c.province = cityPage.province_choice)
    /\ RegionActive =>
          (~HasText(c, "region_label") \/ c.region_label \in cityPage.preferred_region)
    /\ FamilyActive => ("family_friendly" \in DOMAIN c /\ c.family_friendly)

\* The positions of the loaded cities that pass, and the n-th of them.
PassingPositions == {i \in 1..Len(cities) : PassesFilters(cities[i])}
NthPassing(n) ==
    CHOOSE i \in PassingPositions : Cardinality({m \in PassingPositions : m <= i}) = n

\* The language of a translate_dynamic call is Amharic: the session says so.
\* Unset, it is English.
TrAmharic == trCall.session_lang = Str(<<"am">>)

\* The item of the call holds the key, or the key with _am appended.
TrHasKey == trCall.key \in DOMAIN trCall.item
TrHasAmKey == (trCall.key \o <<"_am">>) \in DOMAIN trCall.item

\* ------------------------------------------------------------------------
\* Properties
\* ------------------------------------------------------------------------

\* C1: for a non-empty trimmed query and a non-empty corpus the returned
\* score is the maximum over all records of the similarity of the lower-cased
\* trimmed query and the lower-cased question, whatever the threshold, also
\* when that maximum is below the threshold.
C1_ScoreIsMaximum ==
    \A c \in Callers : ReturnedFromScan(c) => ret[c].score = MaxScoreOf(c)

\* A call whose best score is positive, below the threshold, and attained by
\* the first of two records only.
C1_Witness ==
    \E c \in Callers :
        /\ ReturnedFromScan(c)
        /\ Len(faqs) >= 2
        /\ Less(ScoreOf(c, 2), ScoreOf(c, 1))
        /\ Less(ret[c].score, arg[c].threshold)
        /\ Greater(ret[c].score, Zero)

\* C2: a returned record is the record at the lowest position whose question
\* attains the maximum score; of two records with the same question the
\* earlier one is returned.
C2_FirstMaximumWins ==
    \A c \in Callers :
        (ReturnedFromScan(c) /\ ret[c].record # 0) =>
            LET top == MaxScoreOf(c)
            IN  /\ ret[c].record \in 1..Len(faqs)
                /\ ScoreOf(c, ret[c].record) = top
                /\ \A k \in 1..(ret[c].record - 1) : ScoreOf(c, k) # top

\* Two records with the same question, and the first of them returned.
C2_Witness ==
    \E c \in Callers :
        /\ ReturnedFromScan(c)
        /\ Len(faqs) >= 2
        /\ faqs[1] = faqs[2]
        /\ ret[c].record = 1

\* C3 as stated: with a threshold in [0,1], a best score greater than or
\* equal to the threshold always returns a record of the corpus.
C3_Original ==
    \A c \in Callers :
        (/\ ReturnedFromScan(c)
         /\ InUnitInterval(arg[c].threshold)
         /\ ~Less(MaxScoreOf(c), arg[c].threshold)) =>
            ret[c].record \in 1..Len(faqs)

\* C3 as amended: with a threshold in [0,1], a best score that is greater
\* than 0 and greater than or equal to the threshold (equal included)
\* returns a record of the corpus.
C3_InclusiveBoundary ==
    \A c \in Callers :
        (ReturnedFromScan(c) /\ InUnitInterval(arg[c].threshold)) =>
            LET top == MaxScoreOf(c)
            IN  (Greater(top, Zero) /\ ~Less(top, arg[c].threshold)) =>
                    ret[c].record \in 1..Len(faqs)

\* A best score below 1 that is exactly the threshold, and a record returned.
C3_Witness ==
    \E c \in Callers :
        /\ ReturnedFromScan(c)
        /\ MaxScoreOf(c) = arg[c].threshold
        /\ Less(Zero, arg[c].threshold)
        /\ Less(arg[c].threshold, One)
        /\ ret[c].record # 0

\* C4: a best score strictly below the threshold returns no record together
\* with that best score.
C4_NoMatchKeepsScore ==
    \A c \in Callers :
        ReturnedFromScan(c) =>
            LET top == MaxScoreOf(c)
            IN  Less(top, arg[c].threshold) => ret[c] = [record |-> 0, score |-> top]

\* No record returned, with a score that is neither 0 nor the threshold.
C4_Witness ==
    \E c \in Callers :
        /\ ReturnedFromScan(c)
        /\ Less(MaxScoreOf(c), arg[c].threshold)
        /\ ret[c].record = 0
        /\ Greater(ret[c].score, Zero)

\* C5: a query that is absent, empty or only white space returns (None, 0.0)
\* for every corpus and threshold, and no record is examined.
C5_EmptyQueryLaw ==
    \A c \in Callers :
        (pc[c] # "idle" /\ BlankQuery(c)) =>
            /\ pc[c] = "done"
            /\ ret[c] = [record |-> 0, score |-> Zero]
            /\ examined[c] = 0

\* A query of white space only, returned against a corpus that has a record
\* with the empty question.
C5_Witness ==
    \E c \in Callers :
        /\ pc[c] = "done"
        /\ arg[c].query.tag = "str"
        /\ arg[c].query.s # << >>
        /\ BlankQuery(c)
        /\ \E k \in 1..Len(faqs) : faqs[k].question = Str(<< >>)

\* C6: against the empty corpus every query returns (None, 0.0).
C6_EmptyCorpusLaw ==
    \A c \in Callers :
        faqs = << >> =>
            /\ pc[c] \in {"idle", "done"}
            /\ pc[c] = "done" => ret[c] = [record |-> 0, score |-> Zero]

\* A query with text, returned against the empty corpus.
C6_Witness ==
    \E c \in Callers :
        /\ pc[c] = "done"
        /\ faqs = << >>
        /\ ~BlankQuery(c)

\* C7 as stated: if some record's lower-cased question equals the lower-cased
\* trimmed query then, for a threshold in [0,1], the first such record is
\* returned with score 1.0.
C7_Original ==
    \A c \in Callers :
        (/\ pc[c] = "done"
         /\ InUnitInterval(arg[c].threshold)
         /\ SameQuestion(c) # {}) =>
            ret[c] = [record |-> FirstOf(SameQuestion(c)), score |-> One]

\* C7 as amended: the same, for a query that is not empty after trimming.
C7_IdentityLaw ==
    \A c \in Callers :
        (/\ pc[c] = "done"
         /\ NeedleOf(c) # << >>
         /\ InUnitInterval(arg[c].threshold)
         /\ SameQuestion(c) # {}) =>
            ret[c] = [record |-> FirstOf(SameQuestion(c)), score |-> One]

\* A query that differs from the question in case or in surrounding white
\* space, matched with score 1.0 at threshold 1.
C7_Witness ==
    \E c \in Callers :
        /\ pc[c] = "done"
        /\ NeedleOf(c) # << >>
        /\ SameQuestion(c) # {}
        /\ arg[c].query.s # QuestionText(faqs[FirstOf(SameQuestion(c))])
        /\ arg[c].threshold = One
        /\ ret[c] = [record |-> FirstOf(SameQuestion(c)), score |-> One]

\* C8: the call never raises when every record's question is a string
\* (possibly empty) or missing, for every query (empty and absent included)
\* and every corpus (empty included), and what it returns is a pair of a
\* record of the corpus or None and a score.
C8_NeverRaises ==
    \A c \in Callers :
        QuestionsMissingOrText =>
            /\ pc[c] # "raised"
            /\ pc[c] = "done" =>
                  /\ ret[c].record \in 0..Len(faqs)
                  /\ ret[c].score.den > 0

\* A completed scan over a corpus that has a record without a question.
C8_Witness ==
    \E c \in Callers :
        /\ ReturnedFromScan(c)
        /\ QuestionsMissingOrText
        /\ \E k \in 1..Len(faqs) : faqs[k].question.tag = "absent"
        /\ examined[c] = Len(faqs)

\* C9: a call with the query, corpus and threshold of an earlier call returns
\* the pair the earlier call returned, whatever calls were made before and
\* between the two.
C9_Determinism ==
    \A c \in Callers :
        (pc[c] = "done" /\ ref.taken /\ arg[c] = ref.arg) => ret[c] = ref.ret

\* A later call that repeats the arguments of the kept call, which returned a
\* record.
C9_Witness ==
    \E c \in Callers :
        /\ pc[c] = "done"
        /\ ref.taken
        /\ arg[c] = ref.arg
        /\ ref.ret.record # 0

\* C10: no step of a call changes the corpus (the same records, in the same
\* order, with the same fields), and a call that starts its scan starts from
\* best = None and best_score = 0.0 whatever the calls before left behind.
C10_NoSideEffects ==
    [][/\ faqs' = faqs
       /\ \A c \in Callers :
             (pc[c] = "idle" /\ pc'[c] = "scan") =>
                 (best'[c] = 0 /\ best_score'[c] = Zero)]_vars

\* A call has scanned a corpus with a record that has no question field and
\* has returned a record.
C10_Witness ==
    \E c \in Callers :
        /\ pc[c] = "done"
        /\ ret[c].record # 0
        /\ \E k \in 1..Len(faqs) : faqs[k].question.tag = "absent"

\* C12: the score a call returns is within [0.0, 1.0], for every query,
\* corpus and threshold, whether or not a record is returned.
C12_ScoreInUnitInterval ==
    \A c \in Callers : pc[c] = "done" => InUnitInterval(ret[c].score)

\* A call that returned no record and a score strictly between 0 and 1.
C12_Witness ==
    \E c \in Callers :
        /\ pc[c] = "done"
        /\ ret[c].record = 0
        /\ Less(Zero, ret[c].score)
        /\ Less(ret[c].score, One)

\* C15: a record without a question field is compared as the empty string
\* and is never returned; for a query that is not empty after trimming and
\* every threshold, 0 included, a corpus made only of such records is scanned
\* without an error, no record ever becomes the running best, and the call
\* returns (None, 0.0).
C15_MissingQuestionLaw ==
    \A c \in Callers :
        /\ (pc[c] = "done" /\ ret[c].record # 0) =>
               faqs[ret[c].record].question.tag # "absent"
        /\ (pc[c] # "idle" /\ NeedleOf(c) # << >> /\ QuestionsAllMissing) =>
               /\ pc[c] # "raised"
               /\ best[c] = 0
               /\ best_score[c] = Zero
               /\ pc[c] = "done" => ret[c] = [record |-> 0, score |-> Zero]

\* A call with a query of text and threshold 0 has scanned a corpus of
\* records without a question field to its end.
C15_Witness ==
    \E c \in Callers :
        /\ pc[c] = "done"
        /\ NeedleOf(c) # << >>
        /\ QuestionsAllMissing
        /\ arg[c].threshold = Zero
        /\ examined[c] = Len(faqs)

\* C16: during the scan each record is examined once, in corpus order; the
\* running best score never decreases; the running best record changes only
\* at a step whose record scores strictly higher than the running best score,
\* and becomes that record; after k records the running best score is the
\* maximum of the first k scores; the call returns only after the last record.
C16_RunningMaximum ==
    [][\A c \in Callers :
          pc[c] = "scan" =>
              /\ examined'[c] \in {examined[c], examined[c] + 1}
              /\ examined'[c] <= Len(faqs)
              /\ pc'[c] = "done" => examined[c] = Len(faqs)
              /\ pc'[c] = "scan" =>
                    /\ ~Less(best_score'[c], best_score[c])
                    /\ best_score'[c] = PrefixMaxOf(c, examined'[c])
                    /\ best'[c] # best[c] =>
                          /\ examined'[c] = examined[c] + 1
                          /\ best'[c] = examined'[c]
                          /\ Greater(ScoreOf(c, examined'[c]), best_score[c])
                          /\ best_score'[c] = ScoreOf(c, examined'[c])]_vars

\* Two records examined, the second scoring as much as the first, and the
\* first still the running best.
C16_Witness ==
    \E c \in Callers :
        /\ pc[c] = "scan"
        /\ examined[c] = 2
        /\ best[c] = 1
        /\ Greater(best_score[c], Zero)
        /\ ScoreOf(c, 2) = ScoreOf(c, 1)

\* C17: a returned record is an element of the corpus, and it comes with a
\* score strictly greater than 0 and greater than or equal to the threshold.
C17_ReturnedRecordLaw ==
    \A c \in Callers :
        (pc[c] = "done" /\ ret[c].record # 0) =>
            /\ ret[c].record \in 1..Len(faqs)
            /\ Greater(ret[c].score, Zero)
            /\ ~Less(ret[c].score, ThresholdOf(arg[c].threshold))

\* The second record returned with exactly the threshold as its score.
C17_Witness ==
    \E c \in Callers :
        /\ pc[c] = "done"
        /\ ret[c].record = 2
        /\ ret[c].score = arg[c].threshold
        /\ Less(ret[c].score, One)

\* C11: with two callers running against the same corpus without a lock,
\* under every interleaving of their steps, each call returns the pair it
\* returns when run alone, and raises only where it raises alone (a record
\* whose question is null).
C11_ConcurrentCallsIndependent ==
    \A c \in Callers :
        /\ pc[c] = "done" => ret[c] = AloneResult(c)
        /\ pc[c] = "raised" => ~QuestionsMissingOrText

\* One call has returned a record while the call of the other caller, made
\* with another query, is past its first record with another best score.
C11_Witness ==
    /\ pc[1] = "done"
    /\ ret[1].record # 0
    /\ pc[2] = "scan"
    /\ examined[2] >= 1
    /\ best[2] # 0
    /\ best_score[2] # ret[1].score

\* C13: the threshold belongs to the call.  For the query and corpus of an
\* earlier call, a call with any threshold returns the score the earlier call
\* returned; the two calls differ at most in that one of them returns no
\* record; and a call that leaves the threshold out returns what a call
\* passing 0.55 returns.
C13_ThresholdPerCall ==
    \A c \in Callers :
        (pc[c] = "done" /\ ref.taken /\ arg[c].query = ref.arg.query) =>
            /\ ret[c].score = ref.ret.score
            /\ \/ ret[c].record = ref.ret.record
               \/ ret[c].record = 0
               \/ ref.ret.record = 0
            /\ {arg[c].threshold, ref.arg.threshold} \subseteq {Omitted, Frac(11, 20)} =>
                  ret[c] = ref.ret

\* A call passing 0.55 after a call of the same query that left the threshold
\* out, both returning a record with a score below 1.
C13_Witness ==
    \E c \in Callers :
        /\ pc[c] = "done"
        /\ ref.taken
        /\ ref.arg.threshold = Omitted
        /\ arg[c] = [query |-> ref.arg.query, threshold |-> Frac(11, 20)]
        /\ ret[c].record # 0
        /\ Less(ret[c].score, One)

\* C14 as stated: the similarity ratio is symmetric; for every pair of texts
\* a and b the score of a against b equals the score of b against a.
C14_RatioSymmetric ==
    (sm.ab # NoRatio /\ sm.ba # NoRatio) => sm.ab = sm.ba

\* C18 as stated: when faqs.json is missing the load gives the empty list,
\* and a call then returns (None, 0.0) for every query; a missing cities or
\* guides file gives the empty list as well, and no load ends in an error.
C18_Original ==
    [][/\ LoadStep =>
             /\ run' = "up"
             /\ \A f \in Files : ~disk[f].exists => ListOf(f)' = << >>
       /\ \A c \in Callers :
             (faqs' = << >> /\ pc'[c] = "done") => ret'[c] = [record |-> 0, score |-> Zero]]_vars

\* C18 as amended: the same for a file that is missing when nothing is cached
\* for it, as at the first run of the process.
C18_MissingFileFallback ==
    [][/\ LoadStep =>
             /\ run' = "up"
             /\ \A f \in Files :
                   (~disk[f].exists /\ ~cache[f].cached) => ListOf(f)' = << >>
       /\ \A c \in Callers :
             (faqs' = << >> /\ pc'[c] = "done") => ret'[c] = [record |-> 0, score |-> Zero]]_vars

\* The process came up without faqs.json and without cities.json but with a
\* guides file, and a query with text has returned.
C18_Witness ==
    /\ run = "up"
    /\ ~disk[FaqsFile].exists
    /\ ~disk[CitiesFile].exists
    /\ faqs = << >>
    /\ cities = << >>
    /\ guides # << >>
    /\ \E c \in Callers : pc[c] = "done" /\ ~BlankQuery(c)

\* C19: on the assistant page the matcher and the AI are called only in a
\* run whose ask button was pressed with a non-blank question; a run without
\* that shows no answer; a run with it that renders shows exactly one of the
\* three answers: the AI answer when it is not empty, otherwise the answer of
\* the matched FAQ when a record was returned, otherwise the warning.
C19_OneAnswer ==
    /\ ((\E c \in Callers : pc[c] # "idle") \/ ui.ai_called) => AskedNonBlank
    /\ (ui.phase = "rendered" /\ ~AskedNonBlank) => (ui.shown = {} /\ ~ui.ai_called)
    /\ (ui.phase = "rendered" /\ AskedNonBlank) =>
          /\ ui.ai_called
          /\ ui.shown \cap Answers =
                IF ui.ai_answer.tag = "str" /\ Len(ui.ai_answer.s) > 0 THEN {"ai_answer"}
                ELSE IF ui.faq # 0 THEN {"faq_answer"}
                ELSE {"warning"}

\* The AI answered with an empty text and a record was matched: the answer
\* of the FAQ is the one answer shown.
C19_Witness ==
    /\ ui.phase = "rendered"
    /\ AskedNonBlank
    /\ ui.ai_answer = Str(<< >>)
    /\ ui.faq # 0
    /\ ui.shown = {"faq_answer"}

\* C20: the transparency section is shown exactly when best_faq_match
\* returned a record, whichever answer was displayed, and never with a score
\* below the threshold 0.55; a run that called no matcher does not show it.
C20_TransparencyIffMatched ==
    ui.phase = "rendered" =>
        /\ ui.transparency <=> (ui.faq # 0)
        /\ ui.transparency => (AskedNonBlank /\ ~Less(ui.score, Frac(11, 20)))
        /\ (AskedNonBlank /\ Less(ui.score, Frac(11, 20))) => ~ui.transparency

\* The AI answer was displayed, and the transparency section is shown for a
\* record matched with a score below 1.
C20_Witness ==
    /\ ui.phase = "rendered"
    /\ ui.shown = {"ai_answer"}
    /\ ui.transparency
    /\ Less(ui.score, One)

\* C21 as stated: generate_ai_answer never raises and returns a pair in which
\* exactly one component is None: (None, not-configured message) without a
\* request when there is no client, (None, 'AI error: ...') when the request
\* raises, (answer, None) on success.
C21_Original ==
    aiCall.phase # "idle" =>
        /\ AiCases
        /\ (aiCall.result.answer = None) # (aiCall.result.error = None)

\* C21 as amended: the same three cases, with the answer of a successful
\* request being the content of the message as it came; exactly one component
\* is None unless that content is null, and then both are None.
C21_AnswerOrError ==
    aiCall.phase # "idle" =>
        /\ AiCases
        /\ \/ (aiCall.result.answer = None) # (aiCall.result.error = None)
           \/ /\ AiConfigured
              /\ ~aiCall.w.api.raises
              /\ aiCall.w.api.content = None
              /\ aiCall.result.answer = None
              /\ aiCall.result.error = None

\* No secrets file, the key taken from the environment, and the request
\* raised: the call returned the error message and no answer.
C21_Witness ==
    /\ aiCall.phase = "returned"
    /\ aiCall.w.env.secret = NoSecretsFile
    /\ AiConfigured
    /\ aiCall.w.api.raises
    /\ aiCall.result.error = AiErrorMessage
    /\ aiCall.result.request.sent

\* C22: the list shown on the cities page holds exactly the loaded cities
\* that pass every active filter, in their original order; the region filter
\* keeps a city whose region_label is missing or empty; with no filter active
\* all cities are shown; no run of the page changes the loaded list.
C22_FilteredCities ==
    [][/\ cities' = cities
       /\ (cityPage.phase = "rendered" =>
              /\ Len(cityPage.filtered) = Cardinality(PassingPositions)
              /\ \A n \in 1..Len(cityPage.filtered) :
                    cityPage.filtered[n] = cities[NthPassing(n)]
              /\ \A i \in 1..Len(cities) :
                    (/\ ~HasText(cities[i], "region_label")
                     /\ ~ProvinceActive
                     /\ ~FamilyActive) => i \in PassingPositions
              /\ (~ProvinceActive /\ ~RegionActive /\ ~FamilyActive) =>
                    cityPage.filtered = cities)']_vars

\* All three filters are active on two cities: the first is dropped, the
\* second, which has no region_label, is the one shown.
C22_Witness ==
    /\ cityPage.phase = "rendered"
    /\ Len(cities) = 2
    /\ ProvinceActive
    /\ RegionActive
    /\ FamilyActive
    /\ "region_label" \notin DOMAIN cities[2]
    /\ cityPage.filtered = <<cities[2]>>

\* C23: translate_dynamic never raises for a missing key; in English it
\* returns item[key], or '' if the key is absent; in Amharic it returns
\* item[key + '_am'] if that key is present, otherwise item[key], otherwise ''.
C23_TranslateDynamic ==
    trCall.phase # "idle" =>
        /\ trCall.phase = "returned"
        /\ ~trCall.raised
        /\ trCall.result =
              IF TrAmharic /\ TrHasAmKey THEN trCall.item[trCall.key \o <<"_am">>]
              ELSE IF TrHasKey THEN trCall.item[trCall.key]
              ELSE Str(<< >>)

\* In Amharic, an item without the _am key but with the key: the text of the
\* key is returned.
C23_Witness ==
    /\ trCall.phase = "returned"
    /\ TrAmharic
    /\ ~TrHasAmKey
    /\ TrHasKey
    /\ trCall.result = Str(trCall.key)

====
